---- MODULE Spec2Model ----
(***************************************************************************)
(* vuegister: the section extractor (src/src/vuegister.js, extract) and    *)
(* the line index it uses (src/src/location.js, Location).                 *)
(*                                                                         *)
(* A document is a sequence of markup tokens; buf is the string the tokens *)
(* render to, one character per element.  extract drives htmlparser2 over  *)
(* buf: the parser delivers onopentag / onclosetag events in document      *)
(* order, with parser.endIndex the index of the '>' of an opening tag and  *)
(* parser.startIndex the index of the '<' of a closing tag.  The content   *)
(* of a script element is raw text to htmlparser2: no tag event is         *)
(* delivered inside it until its closing tag, and a closing tag that       *)
(* matches no open element is dropped.                                     *)
(*                                                                         *)
(* The caller's other calls are transpile, generateMap and load.  A value  *)
(* of JavaScript that need not be a string or an integer is a record with  *)
(* its type; a path is the sequence of its segments.  acorn's tokenizer    *)
(* and the validation of SourceMapGenerator.addMapping are taken as those  *)
(* libraries have them; script content is content the tokenizer accepts.   *)
(*                                                                         *)
(* register and unregister work on the state of the process: the .vue     *)
(* property of require.extensions, Error.prepareStackTrace as              *)
(* source-map-support installs it, require.cache as a sequence of modules  *)
(* with the ids of their children, and the cache of source maps.  A call   *)
(* of unload is a frame of frames; the stack has room for MaxStack frames  *)
(* and a call beyond it throws a RangeError, as the engine does.           *)
(***************************************************************************)
EXTENDS Integers, Sequences, FiniteSets, TLC

\* Bounds of the model.
MaxTokens == 5
MaxRepeatTokens == 2
MaxContent == 4
MaxCallTokens == 4

-----------------------------------------------------------------------------
(* Documents *)

Names == {"script", "template", "div"}

NameChars(name) ==
  CASE name = "script" -> <<"s", "c", "r", "i", "p", "t">>
    [] name = "template" -> <<"t", "e", "m", "p", "l", "a", "t", "e">>
    [] OTHER -> <<"d", "i", "v">>

\* The text of Scenario A: module.exports = {}
TextChars ==
  <<"m", "o", "d", "u", "l", "e", ".", "e", "x", "p", "o", "r", "t", "s",
    " ", "=", " ", "{", "}">>

\* src="./sub/a.js"
SrcAttrChars ==
  <<"s", "r", "c", "=", "\"", ".", "/", "s", "u", "b", "/", "a", ".", "j", "s", "\"">>

SrcValue == "./sub/a.js"

Tok(kind, name, src, nl) == [kind |-> kind, name |-> name, src |-> src, nl |-> nl]

OpenTok(name, src, nl) == Tok("open", name, src, nl)
CloseTok(name) == Tok("close", name, FALSE, FALSE)
TextTok == Tok("text", "", FALSE, FALSE)
BreakTok == Tok("text", "", FALSE, TRUE)

\* The opening tags of the alphabet: script and template with or without a
\* src attribute, on one line or with a line break inside the tag; a plain div.
OpenToks ==
  {OpenTok(n, s, l) : n \in {"script", "template"}, s \in BOOLEAN, l \in BOOLEAN}
    \cup {OpenTok("div", FALSE, FALSE)}

LeafToks == {TextTok, BreakTok}

\* The characters of one token.
Render(tok) ==
  CASE tok.kind = "open" ->
         <<"<">> \o NameChars(tok.name)
           \o (IF tok.nl THEN <<"\n">> ELSE IF tok.src THEN <<" ">> ELSE <<>>)
           \o (IF tok.src THEN SrcAttrChars ELSE <<>>)
           \o <<">">>
    [] tok.kind = "close" -> <<"<", "/">> \o NameChars(tok.name) \o <<">">>
    [] OTHER -> IF tok.nl THEN <<"\n">> ELSE TextChars

RECURSIVE RenderDoc(_)
RenderDoc(d) == IF d = <<>> THEN <<>> ELSE Render(Head(d)) \o RenderDoc(Tail(d))

\* The well-formed documents of exactly n tokens: every opening tag has its
\* closing tag and elements are properly nested.
RECURSIVE DocsOfLen(_)
DocsOfLen(n) ==
  IF n = 0 THEN {<<>>}
  ELSE {<<l>> \o d : l \in LeafToks, d \in DocsOfLen(n - 1)}
         \cup UNION {
                {<<o>> \o a \o <<CloseTok(o.name)>> \o b :
                   o \in OpenToks, a \in DocsOfLen(k), b \in DocsOfLen(n - 2 - k)}
                : k \in 0..(n - 2)}

DocsUpTo(n) == UNION {DocsOfLen(k) : k \in 0..n}

TagLists ==
  {<<"script", "template">>, <<"template", "script">>, <<"template">>, <<"script">>}

-----------------------------------------------------------------------------
(* JavaScript objects and strings *)

\* {} : an object with no property.
EmptyObject == [k \in {} |-> 0]

\* object[key] = value
Assign(object, key, value) ==
  [k \in (DOMAIN object) \cup {key} |-> IF k = key THEN value ELSE object[k]]

Has(object, path) == path \in DOMAIN object

\* A missing property reads as undefined, which is falsy.
Truthy(object, key) == Has(object, key) /\ object[key]

Min(a, b) == IF a < b THEN a ELSE b
Max(a, b) == IF a > b THEN a ELSE b

\* String.prototype.substring(from, to): both clamped to the string, swapped
\* when from > to; indexes are 0-based and to is exclusive.
Substring(str, from, to) ==
  LET a == Min(Max(from, 0), Len(str))
      b == Min(Max(to, 0), Len(str))
  IN SubSeq(str, Min(a, b) + 1, Max(a, b))

\* String.prototype.indexOf(ch, from): 0-based, -1 when absent.
RECURSIVE IndexOf(_, _, _)
IndexOf(str, ch, from) ==
  IF from >= Len(str) THEN -1
  ELSE IF str[from + 1] = ch THEN from
  ELSE IndexOf(str, ch, from + 1)

\* Every name counts as requested.
TrackedAlways(tagList, tag) == TRUE

\* tags.indexOf(tag) !== -1
Tracked(tagList, tag) == \E k \in 1..Len(tagList) : tagList[k] = tag

-----------------------------------------------------------------------------
(* Location *)

RECURSIVE ScanBreaks(_, _, _)
ScanBreaks(str, index, indexes) ==
  LET next == IndexOf(str, "\n", index + 1)
  IN IF next = -1 THEN indexes ELSE ScanBreaks(str, next, Append(indexes, next))

\* The constructor with the search begun after the first character.
LocationNewFromZero(str) == ScanBreaks(str, 0, <<>>)

\* new Location(buf): the 0-based positions of the line breaks of buf.
LocationNew(str) == ScanBreaks(str, -1, <<>>)

\* getLine with index < this._indexes[i] for the comparison.
RECURSIVE GetLineStrictFrom(_, _, _)
GetLineStrictFrom(indexes, index, k) ==
  IF k >= Len(indexes) THEN Len(indexes)
  ELSE IF index < indexes[k + 1] THEN k
  ELSE GetLineStrictFrom(indexes, index, k + 1)

GetLineStrict(indexes, index) == GetLineStrictFrom(indexes, index, 0)

RECURSIVE GetLineFrom(_, _, _)
GetLineFrom(indexes, index, k) ==
  IF k >= Len(indexes) THEN Len(indexes)
  ELSE IF index <= indexes[k + 1] THEN k
  ELSE GetLineFrom(indexes, index, k + 1)

\* loc.getLine(index)
GetLine(indexes, index) == GetLineFrom(indexes, index, 0)

-----------------------------------------------------------------------------
(* extract(buf, tags) *)

VARIABLES
  doc,              \* the document, as tokens
  buf,              \* the first argument: the characters of the document
  tags,             \* the second argument
  pc,               \* "entry", "parsing" or "returned"
  i,                \* parser: the next token of doc
  index,            \* parser: the 0-based index in buf of that token
  stack,            \* parser: the open elements, innermost last
  special,          \* parser: inside the raw text of a script element
  isRootTagFinded,
  tagsCounter,
  loc,              \* loc._indexes
  sectStart,
  section,          \* the object the variable section refers to
  sections,         \* the objects pushed, in order
  heap,             \* the objects created by the call
  origin,           \* history: for each object, the opening tag it was created at
  emitted,          \* history: for each push, the element whose closing tag made it
  events,           \* history: the tag events the parser delivered to the handlers
  first,            \* the caller's copy of the first call: arguments and result
  callMix           \* the caller's calls so far: "none" but the first, "again"
                    \* the first's buffer only, "other" another buffer too

parserVars == <<i, index, stack, special>>
localVars == <<isRootTagFinded, tagsCounter, loc, sectStart, section, sections, heap>>
historyVars == <<origin, emitted, events>>
inputVars == <<doc, buf, tags>>
callerVars == <<first, callMix>>

VARIABLES
  fn,               \* the exported function the caller calls
  kinds,            \* typeof of the first argument, and Array.isArray of the second
  call,             \* the other arguments of the call
  installed,        \* the modules require() finds, by name
  outcome,          \* how the call ended, and the calls it made on the way
  loadFile,         \* load: the second argument, and the variable it becomes
  cfg,              \* load: the third argument, and the variable it becomes
  vue,              \* load: the object that collects the sections
  loaded,           \* load: the sections the loop has gone through
  done,             \* history: for each of them, what transpile was given and gave
  sourceMapsCache

VARIABLES
  extensions,         \* require.extensions, the .vue property of it
  prepareStackTrace,  \* Error has the property source-map-support installs
  requireCache,       \* require.cache: the modules, in the order they were loaded
  unloaded,           \* unregister: list, the ids unloaded
  keys,               \* unregister: the keys of require.cache forEach has to visit
  frames,             \* unregister: the calls of unload that have not returned
  visits,             \* history: the calls of unload, by id
  was                 \* history: the state the call began in

loadVars == <<loadFile, cfg, vue, loaded, done, sourceMapsCache>>
hookVars ==
  <<extensions, prepareStackTrace, requireCache, unloaded, keys, frames, visits, was>>
apiVars == <<fn, kinds, call, installed, outcome, loadVars, hookVars>>
extractVars == <<inputVars, pc, parserVars, localVars, historyVars, callerVars>>
vars == <<extractVars, apiVars>>

Undefined == [type |-> "undefined"]

\* A call that has not ended yet.
Pending == [kind |-> "pending", value |-> Undefined, error |-> Undefined, calls |-> <<>>]

\* load is not in play.
NoLoad ==
  /\ loadFile = <<>>
  /\ cfg = EmptyObject
  /\ vue = EmptyObject
  /\ loaded = 0
  /\ done = <<>>
  /\ sourceMapsCache = EmptyObject

\* Nothing is registered, no module is loaded and unregister is not in play.
NoHook ==
  /\ extensions = EmptyObject
  /\ prepareStackTrace = FALSE
  /\ requireCache = <<>>
  /\ unloaded = <<>>
  /\ keys = <<>>
  /\ frames = <<>>
  /\ visits = EmptyObject
  /\ was = EmptyObject

\* The arguments of a call that passes extract's checks.
WellTyped == [buf |-> "string", tags |-> "array"]

\* The caller calls extract on a string and an array; nothing else is in play.
ExtractOnly ==
  /\ fn = "extract"
  /\ kinds = WellTyped
  /\ call = EmptyObject
  /\ installed = EmptyObject
  /\ outcome = Pending
  /\ NoLoad
  /\ NoHook

\* typeof of a first argument; what a second argument is when it is no array.
BufKinds == {"string", "undefined", "null", "object", "boolean"}
TagsKinds == {"array", "undefined", "object", "string"}

\* A number among the tags: it is strictly equal to no tag name.
NotAString == "42"

\* The checks with the one of the second argument left out.
ArgumentErrorFirstOnly(k) ==
  IF k.buf # "string" THEN <<"First argument must be a string.">> ELSE <<>>

\* Lines 41-46: the message of the TypeError thrown, or none.
ArgumentError(k) ==
  IF k.buf # "string" THEN <<"First argument must be a string.">>
  ELSE IF k.tags # "array" THEN <<"Second argument must be an array.">>
  ELSE <<>>

\* attrs, as htmlparser2 hands them to onopentag.
Attrs(tok) == [a \in (IF tok.src THEN {"src"} ELSE {}) |-> SrcValue]

\* The list the caller receives.
Result == [k \in 1..Len(sections) |-> heap[sections[k]]]

NoCall == <<>>

\* The state of a call that has not run line 48 yet.
Blank ==
  /\ i = 1
  /\ index = 0
  /\ stack = <<>>
  /\ special = FALSE
  /\ isRootTagFinded = EmptyObject
  /\ tagsCounter = EmptyObject
  /\ loc = <<>>
  /\ sectStart = 0
  /\ section = 0
  /\ sections = <<>>
  /\ heap = <<>>
  /\ origin = <<>>
  /\ emitted = <<>>
  /\ events = <<>>

Init ==
  /\ doc \in DocsUpTo(MaxTokens)
  /\ tags \in TagLists
  /\ buf = RenderDoc(doc)
  /\ pc = "entry"
  /\ first = NoCall
  /\ callMix = "none"
  /\ Blank
  /\ ExtractOnly

\* Locals that keep isRootTagFinded and tagsCounter of the call before.
LocalsKeepingCounters(str) ==
  /\ i' = 1
  /\ index' = 0
  /\ stack' = <<>>
  /\ special' = FALSE
  /\ loc' = LocationNew(str)
  /\ sectStart' = 0
  /\ heap' = <<EmptyObject>>
  /\ section' = 1
  /\ sections' = <<>>
  /\ origin' = <<0>>
  /\ emitted' = <<>>
  /\ events' = <<>>
  /\ UNCHANGED <<isRootTagFinded, tagsCounter>>

\* Lines 48-49 and 51-92: the locals of a call on the buffer str, and its parser.
Locals(str) ==
  /\ i' = 1
  /\ index' = 0
  /\ stack' = <<>>
  /\ special' = FALSE
  /\ isRootTagFinded' = EmptyObject
  /\ tagsCounter' = EmptyObject
  /\ loc' = LocationNew(str)
  /\ sectStart' = 0
  /\ heap' = <<EmptyObject>>
  /\ section' = 1
  /\ sections' = <<>>
  /\ origin' = <<0>>
  /\ emitted' = <<>>
  /\ events' = <<>>

\* extract(buf, tags), up to parser.parseComplete(buf).
Extract ==
  /\ pc = "entry"
  /\ ArgumentError(kinds) = <<>>
  /\ pc' = "parsing"
  /\ Locals(buf)
  /\ UNCHANGED <<inputVars, callerVars, apiVars>>

AtToken(kind) == pc = "parsing" /\ i <= Len(doc) /\ doc[i].kind = kind

\* The token at i is raw text: it lies in a script element and is not the
\* closing tag of a script.
RawText == special /\ ~(doc[i].kind = "close" /\ doc[i].name = "script")

\* The parser moves past the token at i.
Advance ==
  /\ i' = i + 1
  /\ index' = index + Len(Render(doc[i]))

\* A nested opening tag that is not counted.
OpenNestedLost(counter, tag) == counter

\* tagsCounter[tag] += 1
OpenNested(counter, tag) == Assign(counter, tag, counter[tag] + 1)

\* A start at the '>' of the opening tag.
SectStartAt(endIndex) == endIndex

\* sectStart = parser.endIndex + 1
SectStartAfter(endIndex) == endIndex + 1

\* onopentag(tag, attrs), with the parser's step that delivers it.
OnOpenTag ==
  /\ AtToken("open")
  /\ ~RawText
  /\ LET tag == doc[i].name
         attrs == Attrs(doc[i])
         endIndex == index + Len(Render(doc[i])) - 1
     IN /\ Advance
        /\ stack' = Append(stack, [name |-> tag, at |-> i])
        /\ special' = (tag = "script")
        /\ events' = Append(events, [kind |-> "open", name |-> tag, at |-> i])
        /\ IF ~Tracked(tags, tag)
           THEN UNCHANGED <<localVars, origin, emitted>>
           ELSE IF Truthy(isRootTagFinded, tag)
           THEN /\ tagsCounter' = OpenNested(tagsCounter, tag)
                /\ UNCHANGED <<isRootTagFinded, loc, sectStart, section, sections,
                               heap, origin, emitted>>
           ELSE /\ isRootTagFinded' = Assign(isRootTagFinded, tag, TRUE)
                /\ tagsCounter' = Assign(tagsCounter, tag, 1)
                /\ heap' = Append(heap, [tag |-> tag, attrs |-> attrs])
                /\ section' = Len(heap) + 1
                /\ origin' = Append(origin, i)
                /\ sectStart' = SectStartAfter(endIndex)
                /\ UNCHANGED <<loc, sections, emitted>>
  /\ UNCHANGED <<inputVars, pc, callerVars, apiVars>>

\* An offset that ignores the src attribute.
SectionOffsetNoSrc(attrs, indexes, start) == GetLine(indexes, start)

\* has(section.attrs, 'src') ? 0 : loc.getLine(sectStart)
SectionOffset(attrs, indexes, start) ==
  IF Has(attrs, "src") THEN 0 ELSE GetLine(indexes, start)

\* sections.unshift(section)
Unshift(list, object) == <<object>> \o list

\* sections.push(section)
Push(list, object) == Append(list, object)

\* The closing tag at i closes the innermost open element.
ClosesTop == stack # <<>> /\ stack[Len(stack)].name = doc[i].name

\* onclosetag(tag), with the parser's step that delivers it.
OnCloseTag ==
  /\ AtToken("close")
  /\ ~RawText
  /\ ClosesTop
  /\ LET tag == doc[i].name
         startIndex == index
         counter == tagsCounter[tag] - 1
         object == heap[section]
     IN /\ Advance
        /\ stack' = SubSeq(stack, 1, Len(stack) - 1)
        /\ special' = FALSE
        /\ events' = Append(events, [kind |-> "close", name |-> tag, at |-> i])
        /\ IF ~Tracked(tags, tag)
           THEN UNCHANGED <<localVars, origin, emitted>>
           ELSE /\ tagsCounter' = Assign(tagsCounter, tag, counter)
                /\ IF counter # 0
                   THEN UNCHANGED <<isRootTagFinded, loc, sectStart, section,
                                    sections, heap, origin, emitted>>
                   ELSE /\ heap' =
                             [heap EXCEPT ![section] =
                                Assign(
                                  Assign(
                                    Assign(object, "tag", tag),
                                    "text", Substring(buf, sectStart, startIndex)),
                                  "offset",
                                  SectionOffset(object.attrs, loc, sectStart))]
                        /\ sections' = Push(sections, section)
                        /\ emitted' =
                             Append(emitted,
                                    [open |-> stack[Len(stack)].at, close |-> i])
                        /\ UNCHANGED <<isRootTagFinded, loc, sectStart, section,
                                       origin>>
  /\ UNCHANGED <<inputVars, pc, callerVars, apiVars>>

\* The parser passes a token without calling a handler of extract: text, any
\* token but the closing tag inside the raw text of a script element, and a
\* closing tag that matches no open element.
ParserSkip ==
  /\ pc = "parsing"
  /\ i <= Len(doc)
  /\ \/ doc[i].kind = "text"
     \/ RawText
     \/ /\ doc[i].kind = "close"
        /\ \A k \in 1..Len(stack) : stack[k].name # doc[i].name
  /\ Advance
  /\ UNCHANGED <<inputVars, pc, stack, special, localVars, historyVars, callerVars>>
  /\ UNCHANGED apiVars

\* return sections
Return ==
  /\ pc = "parsing"
  /\ i > Len(doc)
  /\ pc' = "returned"
  /\ first' = IF first = NoCall
              THEN <<[buf |-> buf, tags |-> tags, result |-> Result]>>
              ELSE first
  /\ UNCHANGED <<inputVars, parserVars, localVars, historyVars, callMix, apiVars>>

Next == Extract \/ OnOpenTag \/ OnCloseTag \/ ParserSkip \/ Return

Spec == Init /\ [][Next]_vars

\* The caller calls extract again with the same tags, on the same or on
\* another buffer.
ExtractAgain ==
  /\ pc = "returned"
  /\ pc' = "parsing"
  /\ doc' \in DocsUpTo(MaxRepeatTokens)
  /\ buf' = RenderDoc(doc')
  /\ Locals(buf')
  /\ callMix' = IF buf' # first[1].buf \/ callMix = "other" THEN "other" ELSE "again"
  /\ UNCHANGED <<tags, first, apiVars>>

InitCalls ==
  /\ doc \in DocsUpTo(MaxRepeatTokens)
  /\ tags \in TagLists
  /\ buf = RenderDoc(doc)
  /\ pc = "entry"
  /\ first = NoCall
  /\ callMix = "none"
  /\ Blank
  /\ ExtractOnly

NextCalls == Next \/ ExtractAgain

SpecCalls == InitCalls /\ [][NextCalls]_vars

-----------------------------------------------------------------------------
(* JavaScript values *)

Null == [type |-> "null"]

\* The number n, and the number n + 0.5.
Num(n) == [type |-> "number", nan |-> FALSE, int |-> n, half |-> FALSE]
NumAndHalf(n) == [type |-> "number", nan |-> FALSE, int |-> n, half |-> TRUE]
NaN == [type |-> "number", nan |-> TRUE, int |-> 0, half |-> FALSE]

Str(s) == [type |-> "string", value |-> s]

\* ToNumber, on numbers and undefined.
ToNumber(v) == IF v.type = "number" THEN v ELSE NaN

\* v <= 0
LessOrEqualZero(v) ==
  LET n == ToNumber(v) IN ~n.nan /\ (n.int < 0 \/ (n.int = 0 /\ ~n.half))

\* v > 0
GreaterThanZero(v) ==
  LET n == ToNumber(v) IN ~n.nan /\ (n.int > 0 \/ (n.int = 0 /\ n.half))

\* line + v, line an integer.
Plus(line, v) ==
  LET n == ToNumber(v) IN IF n.nan THEN NaN ELSE [n EXCEPT !.int = line + n.int]

\* An Error object; its message is kept as the parts it is concatenated from.
Error(name, message) == [type |-> "error", name |-> name, message |-> message]

\* How a call ends, with the calls it made on the way.
Returns(value, calls) ==
  [kind |-> "return", value |-> value, error |-> Undefined, calls |-> calls]
Throws(error, calls) ==
  [kind |-> "throw", value |-> Undefined, error |-> error, calls |-> calls]

Called(callee, args) == [callee |-> callee, args |-> args]

-----------------------------------------------------------------------------
(* generateMap(content, file, offset) *)

\* Script content is a sequence of characters: "a" a letter, "{" a
\* punctuator, "\n" a line break.
ContentChars == {"a", "{", "\n"}

ContentsOfLen(n) == [1..n -> ContentChars]
Contents == UNION {ContentsOfLen(n) : n \in 0..MaxContent}

\* The letters of the scripts; every other character but the blank and the
\* line break is a punctuator.
Letters ==
  {"a", "c", "d", "e", "i", "l", "m", "o", "p", "r", "s", "t", "u", "v", "x"}

\* The index after the identifier that starts at k.
RECURSIVE NameEnd(_, _)
NameEnd(content, k) ==
  IF k <= Len(content) /\ content[k] \in Letters THEN NameEnd(content, k + 1) ELSE k

\* content.slice(from, to), 1-based and to exclusive.
RECURSIVE Slice(_, _, _)
Slice(content, from, to) ==
  IF from >= to THEN "" ELSE content[from] \o Slice(content, from + 1, to)

Token(line, column, value) ==
  [loc |-> [start |-> [line |-> line, column |-> column]], value |-> value]

\* acorn's tokenizer(content, {locations: true}): the tokens in scan order,
\* lines counted from 1 and columns from 0.  An identifier carries its name
\* as value and a lone "=" itself; the other punctuators carry none.
RECURSIVE Tokenizer(_, _, _, _)
Tokenizer(content, k, line, column) ==
  IF k > Len(content) THEN <<>>
  ELSE IF content[k] = "\n" THEN Tokenizer(content, k + 1, line + 1, 0)
  ELSE IF content[k] = " " THEN Tokenizer(content, k + 1, line, column + 1)
  ELSE IF content[k] \in Letters
  THEN LET end == NameEnd(content, k)
       IN <<Token(line, column, Str(Slice(content, k, end)))>>
          \o Tokenizer(content, end, line, column + (end - k))
  ELSE <<Token(line, column, IF content[k] = "=" THEN Str("=") ELSE Undefined)>>
       \o Tokenizer(content, k + 1, line, column + 1)

Tokens(content) == Tokenizer(content, 1, 1, 0)

\* The mapping that keeps the line of the generated position.
MappingSameLine(token, file, offset) ==
  [source |-> file,
   original |-> [line |-> Num(token.loc.start.line),
                 column |-> token.loc.start.column],
   generated |-> token.loc.start,
   name |-> token.value]

\* Lines 326-333: the argument of generator.addMapping.
Mapping(token, file, offset) ==
  [source |-> file,
   original |-> [line |-> Plus(token.loc.start.line, offset),
                 column |-> token.loc.start.column],
   generated |-> token.loc.start,
   name |-> token.value]

\* SourceMapGenerator.addMapping validates its argument: positive lines,
\* columns from 0, and a source when an original position is given.
ValidMapping(m) ==
  /\ m.generated.line > 0
  /\ m.generated.column >= 0
  /\ GreaterThanZero(m.original.line)
  /\ m.original.column >= 0
  /\ m.source # <<>>

\* generator.toJSON(), as the mappings a consumer reads from it.
SourceMap(mappings) == [type |-> "object", version |-> 3, mappings |-> mappings]

\* Lines 323-334: the loop over the tokens.
RECURSIVE AddMappings(_, _, _, _, _)
AddMappings(tokens, file, offset, mappings, calls) ==
  IF tokens = <<>>
  THEN Returns(SourceMap(mappings), Append(calls, Called("toJSON", <<>>)))
  ELSE LET m == Mapping(Head(tokens), file, offset)
           added == Append(calls, Called("addMapping", <<m>>))
       IN IF ValidMapping(m)
          THEN AddMappings(Tail(tokens), file, offset, Append(mappings, m), added)
          ELSE Throws(Error("Error", <<"Invalid mapping: ">>), added)

\* The check of lines 315-317 with < for <=.
OffsetRejectedBelowZero(offset) ==
  LET n == ToNumber(offset) IN ~n.nan /\ n.int < 0

\* Line 315: offset <= 0
OffsetRejected(offset) == LessOrEqualZero(offset)

\* Lines 314-337.
GenerateMap(content, file, offset) ==
  IF OffsetRejected(offset)
  THEN Throws(Error("RangeError",
                    <<"Offset parameter should be greater than zero.">>), <<>>)
  ELSE AddMappings(Tokens(content), file, offset, <<>>,
                   <<Called("tokenizer", <<content>>)>>)

-----------------------------------------------------------------------------
(* transpile(lang, text, options) *)

\* `vuegister-plugin-${lang}`; an undefined lang is the string "undefined" here,
\* as it is in the template literal and in langs[lang].
PluginName(lang) == "vuegister-plugin-" \o lang

EOL == "\n"

\* The error of require() for a module that is not installed.
CannotFindModule(plugin) == Error("Error", <<"Cannot find module '", plugin, "'">>)

\* {data, map}
Transpiled(data, map) == [type |-> "object", data |-> data, map |-> map]

\* langs.js() that asks for a map whenever options.maps is set.
JsMapsWhenAsked(text, options, calls) ==
  IF options.maps
  THEN LET made == GenerateMap(text, options.file, options.offset)
           all == Append(calls, Called("generateMap",
                                       <<text, options.file, options.offset>>))
                  \o made.calls
       IN IF made.kind = "throw"
          THEN Throws(made.error, all)
          ELSE Returns(Transpiled(text, made.value), all)
  ELSE Returns(Transpiled(text, Null), calls)

\* Lines 280-286: langs.js()
Js(text, options, calls) ==
  IF options.maps /\ GreaterThanZero(options.offset)
  THEN LET made == GenerateMap(text, options.file, options.offset)
           all == Append(calls, Called("generateMap",
                                       <<text, options.file, options.offset>>))
                  \o made.calls
       IN IF made.kind = "throw"
          THEN Throws(made.error, all)
          ELSE Returns(Transpiled(text, made.value), all)
  ELSE Returns(Transpiled(text, Null), calls)

\* Lines 287-289: langs.html()
Html(text, calls) == Returns(Transpiled(text, Null), calls)

\* Lines 290-295: langs.error(err)
LangsError(plugin, err, calls) ==
  Throws(Error("Error", <<"Plugin ", plugin, " not found.", EOL>> \o err.message),
         calls)

\* The properties of langs that langs[lang] finds: its own, and those of
\* Object.prototype.
OwnLangs == {"js", "html", "error"}
InheritedLangs == {"toString", "constructor"}

\* Line 302: (langs[lang] || langs['error'](err))()
Catch(lang, text, options, plugin, err, calls) ==
  CASE lang = "js" -> Js(text, options, calls)
    [] lang = "html" -> Html(text, calls)
    \* langs.error(): err is undefined, and err.message is read
    [] lang = "error" ->
         Throws(Error("TypeError",
                      <<"Cannot read property 'message' of undefined">>), calls)
    \* Object.prototype.toString()
    [] lang = "toString" -> Returns(Str("[object Undefined]"), calls)
    \* Object()
    [] lang = "constructor" -> Returns([type |-> "object"], calls)
    [] lang \notin OwnLangs \cup InheritedLangs -> LangsError(plugin, err, calls)

\* transpile that handles the built-in languages before it looks for a plugin.
TranspileBuiltinFirst(lang, text, options, modules) ==
  LET plugin == PluginName(lang)
      required == <<Called("require", <<plugin>>)>>
      called == Append(required, Called("plugin", <<text, options>>))
  IN IF lang = "js" THEN Js(text, options, <<>>)
     ELSE IF lang = "html" THEN Html(text, <<>>)
     ELSE IF plugin \notin DOMAIN modules
     THEN Catch(lang, text, options, plugin, CannotFindModule(plugin), required)
     ELSE IF modules[plugin].throws
     THEN Catch(lang, text, options, plugin, modules[plugin].error, called)
     ELSE Returns(modules[plugin].returns, called)

\* Lines 276-304.
Transpile(lang, text, options, modules) ==
  LET plugin == PluginName(lang)
      required == <<Called("require", <<plugin>>)>>
      called == Append(required, Called("plugin", <<text, options>>))
  IN IF plugin \notin DOMAIN modules
     THEN Catch(lang, text, options, plugin, CannotFindModule(plugin), required)
     ELSE IF modules[plugin].throws
     THEN Catch(lang, text, options, plugin, modules[plugin].error, called)
     ELSE Returns(modules[plugin].returns, called)

-----------------------------------------------------------------------------
(* The calls of the caller *)

Langs == {"js", "html", "babel", "error", "toString", "constructor", "undefined"}

Offsets ==
  {Num(-1), Num(0), Num(1), Num(5), Num(9), NumAndHalf(0), NumAndHalf(1), Undefined}

\* A path is the sequence of its segments; the empty one is no file.
Files == {<<>>, <<"app", "basic.vue">>}

Options == [file : Files, maps : BOOLEAN, offset : Offsets, extra : {EmptyObject}]

\* What a plugin does when it is called.
PluginMap == [type |-> "object", version |-> 3, mappings |-> <<>>, file |-> "plugin"]
PluginError == Error("SyntaxError", <<"unexpected token">>)
PluginReturns ==
  {Transpiled(<<"{">>, Null), Transpiled(<<"{">>, PluginMap), Undefined}
Plugins ==
  {[throws |-> FALSE, returns |-> v, error |-> Undefined] : v \in PluginReturns}
  \cup {[throws |-> TRUE, returns |-> Undefined, error |-> PluginError]}

\* The plugin of lang is not installed, or it is one of Plugins.
ModulesFor(lang) ==
  {EmptyObject} \cup {[p \in {PluginName(lang)} |-> m] : m \in Plugins}


-----------------------------------------------------------------------------
(* The argument checks of extract *)

\* Lines 41-46, when a check fails.
ExtractThrows ==
  /\ pc = "entry"
  /\ ArgumentError(kinds) # <<>>
  /\ outcome' = Throws(Error("TypeError", ArgumentError(kinds)), outcome.calls)
  /\ pc' = "thrown"
  /\ UNCHANGED <<inputVars, parserVars, localVars, historyVars, callerVars>>
  /\ UNCHANGED <<fn, kinds, call, installed, loadVars, hookVars>>

-----------------------------------------------------------------------------
(* load(buf, file, cfg) *)

\* A string given by its characters.
Text(chars) == [type |-> "string", chars |-> chars]

\* object[key], undefined when there is no such property.
Field(object, key) ==
  IF object.type = "object" /\ key \in DOMAIN object
  THEN IF key = "data" THEN Text(object[key]) ELSE object[key]
  ELSE Undefined

\* Object.assign(target, source)
ObjectAssign(target, source) ==
  [key \in DOMAIN target \cup DOMAIN source |->
     IF key \in DOMAIN source THEN source[key] ELSE target[key]]

\* Lines 130-132.
Defaults ==
  [maps |-> FALSE, lang |-> [script |-> "js", template |-> "html"],
   plugins |-> EmptyObject]

\* path.dirname, process.cwd() and path.resolve, on segments.
Dirname(path) == SubSeq(path, 1, Len(path) - 1)
Cwd == <<"cwd">>
Resolve(dir, src) == dir \o (IF src = SrcValue THEN <<"sub", "a.js">> ELSE <<src>>)

\* The files fs.readFileSync finds.
Disk == [path \in {<<"app", "sub", "a.js">>} |-> <<"a", "\n", "{">>]

\* cfg.lang[tag]; the string "undefined" is an undefined lang.
DefaultLang(langs, tag) == IF Has(langs, tag) THEN langs[tag] ELSE "undefined"

\* Object.assign({}, cfg.plugins[lang])
Extra(plugins, lang) ==
  IF Has(plugins, lang) THEN ObjectAssign(EmptyObject, plugins[lang]) ELSE EmptyObject

\* JSON.stringify(template); the concatenation turns undefined into a string.
JsonStringify(template) ==
  IF template.type = "string" THEN [type |-> "json", of |-> template] ELSE template

\* Lines 367-375: the lines injectTemplate joins with os.EOL.
InjectTemplate(template) ==
  <<Str(""), Str(EOL),
    Str("var __vue__options__ = (module.exports.__esModule) ?"), Str(EOL),
    Str("module.exports.default : module.exports;"), Str(EOL),
    Str("__vue__options__.template = "), JsonStringify(template), Str(";"), Str(EOL),
    Str("")>>

\* vue[key]
VueField(object, key) == IF Has(object, key) THEN object[key] ELSE Undefined

\* load is called by the caller, or by the hook for a require().
Loaders == {"load", "require"}

\* cfg.maps && transpiled.map, for any map.
CachedWheneverMade(maps, map) == map.type = "object"

\* Line 157: cfg.maps && transpiled.map
Cached(maps, map) == maps /\ map.type = "object"

\* Lines 125-135, and the call of extract of line 137.
LoadCall ==
  /\ fn \in Loaders
  /\ pc = "called"
  /\ IF kinds.buf # "string"
     THEN /\ outcome' = Throws(Error("TypeError", <<"First argument must be a string.">>),
                               outcome.calls)
          /\ pc' = "thrown"
          /\ UNCHANGED <<cfg, vue, tags>>
     ELSE /\ cfg' = ObjectAssign(Defaults, cfg)
          /\ vue' = EmptyObject
          /\ tags' = <<"script", "template">>
          /\ pc' = "entry"
          /\ outcome' = [outcome EXCEPT
                           !.calls = Append(@, Called("extract", <<buf, tags'>>))]
  /\ UNCHANGED <<doc, buf, parserVars, localVars, historyVars, callerVars>>
  /\ UNCHANGED <<fn, kinds, call, installed, loadFile, loaded, done, sourceMapsCache, hookVars>>

\* Lines 137-160: the body of the loop, for the next section.
LoadSection ==
  /\ fn \in Loaders
  /\ pc = "returned"
  /\ loaded < Len(sections)
  /\ LET object == sections[loaded + 1]
         attrs == heap[object].attrs
         lang == IF Has(attrs, "lang") THEN attrs.lang
                 ELSE DefaultLang(cfg.lang, heap[object].tag)
         src == Has(attrs, "src")
         dir == IF loadFile # <<>> THEN Dirname(loadFile) ELSE Cwd
         path == IF src THEN Resolve(dir, attrs.src) ELSE loadFile
         found == ~src \/ path \in DOMAIN Disk
         text == IF src /\ found THEN Disk[path] ELSE heap[object].text
         options == [file |-> path, maps |-> cfg.maps,
                     offset |-> Num(heap[object].offset),
                     extra |-> Extra(cfg.plugins, lang)]
         transpiled == Transpile(lang, text, options, installed)
         read == outcome.calls
                 \o (IF src THEN <<Called("readFileSync", <<path>>)>> ELSE <<>>)
         calls == Append(read, Called("transpile", <<lang, text, options>>))
                  \o transpiled.calls
     IN /\ loadFile' = path
        /\ IF ~found
           THEN /\ outcome' = Throws(Error("Error", <<"ENOENT: no such file or directory">>),
                                     read)
                /\ pc' = "thrown"
                /\ UNCHANGED <<heap, vue, loaded, done, sourceMapsCache>>
           ELSE /\ heap' = [heap EXCEPT ![object].text = text]
                /\ IF transpiled.kind = "throw"
                   THEN /\ outcome' = Throws(transpiled.error, calls)
                        /\ pc' = "thrown"
                        /\ UNCHANGED <<vue, loaded, done, sourceMapsCache>>
                   ELSE IF transpiled.value.type = "undefined"
                   THEN /\ outcome' = Throws(Error("TypeError",
                                               <<"Cannot read property 'data' of undefined">>),
                                             calls)
                        /\ pc' = "thrown"
                        /\ UNCHANGED <<vue, loaded, done, sourceMapsCache>>
                   ELSE /\ vue' = Assign(vue, heap[object].tag,
                                         Field(transpiled.value, "data"))
                        /\ loaded' = loaded + 1
                        /\ done' = Append(done,
                                          [tag |-> heap[object].tag, lang |-> lang,
                                           file |-> path,
                                           map |-> Field(transpiled.value, "map")])
                        /\ pc' = pc
                        /\ IF Cached(cfg.maps, Field(transpiled.value, "map"))
                           THEN /\ sourceMapsCache' =
                                     Assign(sourceMapsCache, path, transpiled.value.map)
                                /\ outcome' = [outcome EXCEPT !.calls =
                                     Append(calls, Called("sourceMapsCache.set", <<path>>))]
                           ELSE /\ outcome' = [outcome EXCEPT !.calls = calls]
                                /\ UNCHANGED sourceMapsCache
  /\ UNCHANGED <<inputVars, parserVars, isRootTagFinded, tagsCounter, loc, sectStart,
                 section, sections, historyVars, callerVars>>
  /\ UNCHANGED <<fn, kinds, call, installed, cfg, hookVars>>

\* Lines 162-164.
LoadReturn ==
  /\ fn \in Loaders
  /\ pc = "returned"
  /\ loaded = Len(sections)
  /\ vue' = Assign(vue, "script",
                   [type |-> "string",
                    parts |-> <<VueField(vue, "script")>>
                              \o InjectTemplate(VueField(vue, "template"))])
  /\ outcome' = Returns(vue'.script, outcome.calls)
  /\ pc' = "loaded"
  /\ UNCHANGED <<inputVars, parserVars, localVars, historyVars, callerVars>>
  /\ UNCHANGED <<fn, kinds, call, installed, loadFile, cfg, loaded, done, sourceMapsCache, hookVars>>

-----------------------------------------------------------------------------
(* The calls of the caller *)

\* The tag lists of a caller of extract: the empty one and lists with a
\* number in them too.
ArgTagLists ==
  TagLists \cup {<<>>, <<NotAString>>, <<"script", NotAString>>}

\* The third argument of load, undefined or an object.
CfgArgs == {EmptyObject, [maps |-> TRUE]}

\* The plugins installed when load is called.
LoadModules ==
  {EmptyObject,
   [p \in {PluginName("html")} |->
      [throws |-> FALSE, returns |-> Transpiled(<<"{">>, PluginMap), error |-> Undefined]]}

\* typeof index === "number" for the check of getLine.
IsNumber(at) == at.type = "number"

\* Number.isInteger(index)
IsInteger(at) == at.type = "number" /\ ~at.nan /\ ~at.half

\* loc.getLine(index) on any value: lines 34-36, then the loop.
LocationGetLine(indexes, at) ==
  IF ~IsInteger(at)
  THEN Throws(Error("TypeError", <<"First argument must be a number.">>), <<>>)
  ELSE Returns(Num(GetLine(indexes, at.int)), <<>>)

\* The indexes a caller of getLine passes: in the buffer, before it, after
\* it, and values that are no integers.
IndexArgs ==
  {Num(k) : k \in -2 .. MaxContent + 1}
    \cup {NumAndHalf(0), NumAndHalf(1), NaN, Undefined, Null, Str("1")}

\* The extractor is not in play.
NoExtract ==
  /\ doc = <<>>
  /\ buf = <<>>
  /\ tags = <<>>

InitApi ==
  /\ \/ /\ fn = "transpile"
        /\ call \in [lang : Langs, text : Contents, options : Options]
        /\ installed \in ModulesFor(call.lang)
        /\ kinds = WellTyped
        /\ pc = "called"
        /\ NoExtract
        /\ NoLoad
     \/ /\ fn = "generateMap"
        /\ call \in [content : Contents, file : Files, offset : Offsets]
        /\ installed = EmptyObject
        /\ kinds = WellTyped
        /\ pc = "called"
        /\ NoExtract
        /\ NoLoad
     \/ /\ fn = "extract"
        /\ kinds \in [buf : BufKinds, tags : TagsKinds]
        /\ doc \in IF kinds.buf = "string" THEN DocsUpTo(MaxCallTokens) ELSE {<<>>}
        /\ tags \in IF kinds.tags = "array" THEN ArgTagLists ELSE {<<>>}
        /\ buf = RenderDoc(doc)
        /\ call = EmptyObject
        /\ installed = EmptyObject
        /\ pc = "entry"
        /\ NoLoad
     \/ /\ fn = "load"
        /\ kinds \in [buf : BufKinds, tags : {"array"}]
        /\ doc \in IF kinds.buf = "string" THEN DocsUpTo(MaxCallTokens) ELSE {<<>>}
        /\ tags = <<>>
        /\ buf = RenderDoc(doc)
        /\ loadFile \in Files
        /\ cfg \in CfgArgs
        /\ installed \in LoadModules
        /\ call = [file |-> loadFile, cfg |-> cfg]
        /\ vue = EmptyObject
        /\ loaded = 0
        /\ done = <<>>
        /\ sourceMapsCache = EmptyObject
        /\ pc = "called"
     \/ /\ fn = "getLine"
        /\ buf \in Contents
        /\ call \in [index : IndexArgs]
        /\ doc = <<>>
        /\ tags = <<>>
        /\ installed = EmptyObject
        /\ kinds = WellTyped
        /\ pc = "called"
        /\ NoLoad
  /\ outcome = Pending
  /\ first = NoCall
  /\ callMix = "none"
  /\ Blank
  /\ NoHook

Ended(result) == IF result.kind = "return" THEN "returned" ELSE "thrown"

\* The caller calls transpile(lang, text, options).
TranspileCall ==
  /\ fn = "transpile"
  /\ pc = "called"
  /\ outcome' = Transpile(call.lang, call.text, call.options, installed)
  /\ pc' = Ended(outcome')
  /\ UNCHANGED <<inputVars, parserVars, localVars, historyVars, callerVars>>
  /\ UNCHANGED <<fn, kinds, call, installed, loadVars, hookVars>>

\* The caller calls generateMap(content, file, offset).
GenerateMapCall ==
  /\ fn = "generateMap"
  /\ pc = "called"
  /\ outcome' = GenerateMap(call.content, call.file, call.offset)
  /\ pc' = Ended(outcome')
  /\ UNCHANGED <<inputVars, parserVars, localVars, historyVars, callerVars>>
  /\ UNCHANGED <<fn, kinds, call, installed, loadVars, hookVars>>

\* The caller calls new Location(buf).getLine(index).
GetLineCall ==
  /\ fn = "getLine"
  /\ pc = "called"
  /\ loc' = LocationNew(buf)
  /\ outcome' = LocationGetLine(loc', call.index)
  /\ pc' = Ended(outcome')
  /\ UNCHANGED <<inputVars, parserVars, isRootTagFinded, tagsCounter, sectStart,
                 section, sections, heap, historyVars, callerVars>>
  /\ UNCHANGED <<fn, kinds, call, installed, loadVars, hookVars>>

NextApi ==
  \/ GetLineCall
  \/ TranspileCall
  \/ GenerateMapCall
  \/ ExtractThrows
  \/ Next
  \/ LoadCall
  \/ LoadSection
  \/ LoadReturn

SpecApi == InitApi /\ [][NextApi]_vars

-----------------------------------------------------------------------------
(* register(options), unregister() and the hook *)

\* The depth of calls the stack of the engine has room for.
MaxStack == 6

VUE_EXT == ".vue"

Bool(b) == [type |-> "boolean", value |-> b]

\* The files of the application.
BasicVue == <<"app", "basic.vue">>
OtherVue == <<"app", "other.vue">>
XJs == <<"app", "x.js">>

\* path.extname(key)
Extname(key) ==
  IF key # <<>> /\ key[Len(key)] \in {"basic.vue", "other.vue"} THEN VUE_EXT ELSE ".js"

\* require.resolve('source-map-support'), and a module it requires.
SourceMapSupport == <<"node_modules", "source-map-support", "source-map-support.js">>
BufferFrom == <<"node_modules", "buffer-from", "index.js">>

\* What fs.readFileSync(file, 'utf8') gives the hook:
\* <script\n>module.exports = {}</script><template></template> and
\* <template src="./sub/a.js"></template>\n<script></script>
VueDisk ==
  (BasicVue :> <<OpenTok("script", FALSE, TRUE), TextTok, CloseTok("script"),
                 OpenTok("template", FALSE, FALSE), CloseTok("template")>>)
  @@ (OtherVue :> <<OpenTok("template", TRUE, FALSE), CloseTok("template"), BreakTok,
                    OpenTok("script", FALSE, FALSE), CloseTok("script")>>)

\* A module of require.cache: its id and the ids of module.children.
Module(id, children) == [id |-> id, children |-> children]

\* require.cache[id], which is there or not.
InCache(cache, id) == \E k \in 1 .. Len(cache) : cache[k].id = id
CacheGet(cache, id) == cache[CHOOSE k \in 1 .. Len(cache) : cache[k].id = id]

\* Object.keys(require.cache)
ObjectKeys(cache) == [k \in 1 .. Len(cache) |-> cache[k].id]

\* A delete that leaves the module in the cache.
DeleteNothing(cache, id) == cache

\* Line 229: delete require.cache[id]
Delete(cache, id) == SelectSeq(cache, LAMBDA m : m.id # id)

\* A delete that leaves the property in place.
KeepProperty(object, key) == object

\* Lines 242 and 246: delete object[key]
DeleteProperty(object, key) == [k \in (DOMAIN object) \ {key} |-> object[k]]

\* A check that never finds a handler.
RegisteredNever(exts) == FALSE

\* Line 191: has(require.extensions, VUE_EXT)
Registered(exts) == Has(exts, VUE_EXT)

\* Lines 195-199: deepMerge of the defaults and the options; lang and plugins
\* are objects and are merged property by property.
DeepMerge(target, source) ==
  [key \in DOMAIN target \cup DOMAIN source |->
     IF key \notin DOMAIN source THEN target[key]
     ELSE IF key \in DOMAIN target /\ key \in {"lang", "plugins"}
     THEN ObjectAssign(target[key], source[key])
     ELSE source[key]]

\* The options a caller passes to register, and to load as cfg.
RegisterArgs ==
  {EmptyObject, [maps |-> TRUE], [maps |-> TRUE, lang |-> [script |-> "coffee"]]}

\* The plugins installed: the one of coffee.
HookModules ==
  [p \in {PluginName("coffee")} |->
     [throws |-> FALSE, returns |-> Transpiled(<<"{">>, PluginMap), error |-> Undefined]]

\* The state a call begins in, and the call before it.
Snapshot ==
  [fn |-> fn, kind |-> outcome.kind, extensions |-> extensions,
   prepareStackTrace |-> prepareStackTrace, sourceMapsCache |-> sourceMapsCache,
   requireCache |-> requireCache]

\* The caller is not in a call.
Ready == pc \in {"idle", "thrown"} \/ (fn = "load" /\ pc = "loaded")

\* The variables of unregister, when it is not in a call.
NoUnload ==
  /\ unloaded' = <<>>
  /\ keys' = <<>>
  /\ frames' = <<>>
  /\ visits' = EmptyObject

\* extract and load at the start of a call on document d.
Fresh(d, file, options) ==
  /\ doc' = d
  /\ buf' = RenderDoc(d)
  /\ tags' = <<>>
  /\ i' = 1
  /\ index' = 0
  /\ stack' = <<>>
  /\ special' = FALSE
  /\ isRootTagFinded' = EmptyObject
  /\ tagsCounter' = EmptyObject
  /\ loc' = <<>>
  /\ sectStart' = 0
  /\ section' = 0
  /\ sections' = <<>>
  /\ heap' = <<>>
  /\ origin' = <<>>
  /\ emitted' = <<>>
  /\ events' = <<>>
  /\ first' = NoCall
  /\ callMix' = "none"
  /\ loadFile' = file
  /\ cfg' = options
  /\ vue' = EmptyObject
  /\ loaded' = 0
  /\ done' = <<>>
  /\ UNCHANGED <<kinds, installed>>

\* extract and load are not in a call.
Idle == Fresh(<<>>, <<>>, EmptyObject)

\* The variables of extract but the position of the call.
extractState == <<inputVars, parserVars, localVars, historyVars, callerVars>>

\* Lines 342-352: require('source-map-support').install(...); the module and
\* the one it requires are loaded when they are not, and install sets
\* Error.prepareStackTrace.
InstallMapsSupport ==
  /\ requireCache' =
       IF InCache(requireCache, SourceMapSupport) THEN requireCache
       ELSE requireCache \o <<Module(SourceMapSupport, <<BufferFrom>>),
                               Module(BufferFrom, <<>>)>>
  /\ prepareStackTrace' = TRUE

\* register(options), lines 190-211.
RegisterCall ==
  /\ Ready
  /\ \E options \in RegisterArgs :
       /\ fn' = "register"
       /\ call' = [options |-> options]
       /\ was' = Snapshot
       /\ IF Registered(extensions)
          THEN /\ outcome' = Returns(Bool(FALSE), <<>>)
               /\ UNCHANGED <<extensions, prepareStackTrace, requireCache>>
          ELSE LET merged == DeepMerge(Defaults, options)
               IN /\ IF merged.maps
                     THEN InstallMapsSupport
                     ELSE UNCHANGED <<prepareStackTrace, requireCache>>
                  /\ extensions' = Assign(extensions, VUE_EXT,
                                          [options |-> merged, given |-> options])
                  /\ outcome' = Returns(Bool(TRUE), <<>>)
  /\ pc' = "idle"
  /\ Idle
  /\ NoUnload
  /\ UNCHANGED sourceMapsCache

\* require(file) of a .vue file: lines 203-205 when the hook is there and
\* the module is not loaded yet.
RequireCall ==
  /\ Ready
  /\ \E file \in DOMAIN VueDisk :
       /\ fn' = "require"
       /\ was' = Snapshot
       /\ IF InCache(requireCache, file)
          THEN /\ call' = [file |-> file, cfg |-> EmptyObject]
               /\ outcome' = Returns([type |-> "object"], <<>>)
               /\ pc' = "idle"
               /\ Idle
          ELSE IF ~Has(extensions, VUE_EXT)
          THEN /\ call' = [file |-> file, cfg |-> EmptyObject]
               /\ outcome' = Throws(Error("SyntaxError", <<"Unexpected token <">>), <<>>)
               /\ pc' = "thrown"
               /\ Idle
          ELSE /\ call' = [file |-> file, cfg |-> extensions[VUE_EXT].given]
               /\ outcome' = [Pending EXCEPT
                                !.calls = <<Called("readFileSync", <<file>>)>>]
               /\ pc' = "called"
               /\ Fresh(VueDisk[file], file, extensions[VUE_EXT].options)
  /\ NoUnload
  /\ UNCHANGED <<sourceMapsCache, extensions, prepareStackTrace, requireCache>>

\* Line 207: module._compile(script, file); the module stays in require.cache.
HookCompile ==
  /\ fn = "require"
  /\ pc = "loaded"
  /\ requireCache' = Append(requireCache, Module(call.file, <<>>))
  /\ outcome' = Returns([type |-> "object"], outcome.calls)
  /\ pc' = "idle"
  /\ UNCHANGED <<extractState, fn, kinds, call, installed, loadVars>>
  /\ UNCHANGED <<extensions, prepareStackTrace, unloaded, keys, frames, visits, was>>

\* The caller calls load(buf, file, cfg) on a .vue file it has read.
LoadDirectCall ==
  /\ Ready
  /\ \E file \in DOMAIN VueDisk, options \in RegisterArgs :
       /\ fn' = "load"
       /\ call' = [file |-> file, cfg |-> options]
       /\ was' = Snapshot
       /\ outcome' = Pending
       /\ pc' = "called"
       /\ Fresh(VueDisk[file], file, options)
  /\ NoUnload
  /\ UNCHANGED <<sourceMapsCache, extensions, prepareStackTrace, requireCache>>

\* unregister(), lines 220-235: list, unload and the keys forEach will visit.
UnregisterCall ==
  /\ Ready
  /\ fn' = "unregister"
  /\ call' = EmptyObject
  /\ was' = Snapshot
  /\ unloaded' = <<>>
  /\ keys' = ObjectKeys(requireCache)
  /\ frames' = <<>>
  /\ visits' = EmptyObject
  /\ outcome' = Pending
  /\ pc' = "unloading"
  /\ Idle
  /\ UNCHANGED <<extensions, prepareStackTrace, requireCache, sourceMapsCache>>

\* unload(id) is called, lines 223-226: it returns at once for an id that is
\* not in the cache, and it has no room on a full stack.
Unload(id, callers) ==
  /\ visits' = Assign(visits, id, IF Has(visits, id) THEN visits[id] + 1 ELSE 1)
  /\ IF ~InCache(requireCache, id)
     THEN /\ frames' = callers
          /\ UNCHANGED <<outcome, pc>>
     ELSE IF Len(callers) >= MaxStack
     THEN /\ frames' = <<>>
          /\ outcome' = Throws(Error("RangeError", <<"Maximum call stack size exceeded">>),
                               <<>>)
          /\ pc' = "thrown"
     ELSE /\ frames' = Append(callers,
                              [id |-> id,
                               children |-> CacheGet(requireCache, id).children,
                               child |-> 0])
          /\ UNCHANGED <<outcome, pc>>

\* Lines 235-239: forEach passes the next key, and unload is called for a
\* .vue file and for source-map-support.
UnloadKey ==
  /\ pc = "unloading"
  /\ frames = <<>>
  /\ keys # <<>>
  /\ keys' = Tail(keys)
  /\ IF Extname(Head(keys)) = VUE_EXT \/ Head(keys) = SourceMapSupport
     THEN Unload(Head(keys), frames)
     ELSE UNCHANGED <<frames, visits, outcome, pc>>
  /\ UNCHANGED <<extractState, fn, kinds, call, installed, loadVars>>
  /\ UNCHANGED <<extensions, prepareStackTrace, requireCache, unloaded, was>>

\* Line 228: module.children.forEach passes the next child to unload.
UnloadChild ==
  /\ pc = "unloading"
  /\ frames # <<>>
  /\ LET top == frames[Len(frames)]
     IN /\ top.child < Len(top.children)
        /\ Unload(top.children[top.child + 1],
                  [frames EXCEPT ![Len(frames)].child = top.child + 1])
  /\ UNCHANGED <<extractState, fn, kinds, call, installed, loadVars>>
  /\ UNCHANGED <<extensions, prepareStackTrace, requireCache, unloaded, keys, was>>

\* Lines 229-230: the children are done; the module is deleted and listed.
UnloadDelete ==
  /\ pc = "unloading"
  /\ frames # <<>>
  /\ LET top == frames[Len(frames)]
     IN /\ top.child = Len(top.children)
        /\ requireCache' = Delete(requireCache, top.id)
        /\ unloaded' = Append(unloaded, top.id)
  /\ frames' = SubSeq(frames, 1, Len(frames) - 1)
  /\ UNCHANGED <<extractState, pc, fn, kinds, call, installed, outcome, loadVars>>
  /\ UNCHANGED <<extensions, prepareStackTrace, keys, visits, was>>

\* Lines 241-251: the handler, Error.prepareStackTrace and the maps go, and
\* the list is returned.
UnregisterReturn ==
  /\ pc = "unloading"
  /\ frames = <<>>
  /\ keys = <<>>
  /\ extensions' = IF Has(extensions, VUE_EXT)
                   THEN DeleteProperty(extensions, VUE_EXT) ELSE extensions
  /\ prepareStackTrace' = FALSE
  /\ sourceMapsCache' = EmptyObject
  /\ outcome' = Returns(unloaded, <<>>)
  /\ pc' = "idle"
  /\ UNCHANGED <<extractState, fn, kinds, call, installed, loadFile, cfg, vue, loaded, done>>
  /\ UNCHANGED <<requireCache, unloaded, keys, frames, visits, was>>

\* Nothing has been called yet.
NoCallYet ==
  /\ fn = "none"
  /\ pc = "idle"
  /\ kinds = WellTyped
  /\ call = EmptyObject
  /\ outcome = Pending
  /\ NoExtract
  /\ Blank
  /\ first = NoCall
  /\ callMix = "none"
  /\ NoLoad

\* A process that has loaded the module and called nothing.
InitHook ==
  /\ NoCallYet
  /\ installed = HookModules
  /\ NoHook

NextHook ==
  \/ RegisterCall
  \/ RequireCall
  \/ HookCompile
  \/ LoadDirectCall
  \/ LoadCall
  \/ Next
  \/ LoadSection
  \/ LoadReturn
  \/ UnregisterCall
  \/ UnloadKey
  \/ UnloadChild
  \/ UnloadDelete
  \/ UnregisterReturn

SpecHook == InitHook /\ [][NextHook]_vars

\* The subsequences of a sequence.
SubSeqs(ids) ==
  {SelectSeq(ids, LAMBDA id : id \in chosen) :
     chosen \in SUBSET {ids[k] : k \in 1 .. Len(ids)}}

\* The module caches a process can have built: .vue files and a .js file,
\* each loaded or not, each with any of them among its children (a module that
\* requires itself, two that require each other, a child that was unloaded
\* by other code); source-map-support loaded or not.
ModuleGraphs ==
  UNION {
    {support \o [k \in 1 .. Len(ids) |-> Module(ids[k], children[k])] :
       children \in [1 .. Len(ids) -> SubSeqs(<<BasicVue, OtherVue, XJs>>)],
       support \in {<<>>, <<Module(SourceMapSupport, <<>>)>>}}
    : ids \in SubSeqs(<<BasicVue, OtherVue, XJs>>)}

\* A process in which modules are loaded, by the hook or by other code,
\* calls unregister.
InitUnload ==
  /\ NoCallYet
  /\ installed = EmptyObject
  /\ requireCache \in ModuleGraphs
  /\ extensions \in {EmptyObject,
                     (VUE_EXT :> [options |-> Defaults, given |-> EmptyObject])}
  /\ prepareStackTrace = InCache(requireCache, SourceMapSupport)
  /\ unloaded = <<>>
  /\ keys = <<>>
  /\ frames = <<>>
  /\ visits = EmptyObject
  /\ was = EmptyObject

NextUnload ==
  \/ UnregisterCall
  \/ UnloadKey
  \/ UnloadChild
  \/ UnloadDelete
  \/ UnregisterReturn

SpecUnload == InitUnload /\ [][NextUnload]_vars

-----------------------------------------------------------------------------
(* The document, measured on its tokens *)

\* The characters of the first k tokens of d: the 0-based index in the buffer
\* of the first character after token k.
RECURSIVE CharsUpTo(_, _)
CharsUpTo(d, k) == IF k = 0 THEN 0 ELSE CharsUpTo(d, k - 1) + Len(Render(d[k]))

TokStart(d, k) == CharsUpTo(d, k - 1)

\* The line breaks among the characters of the first k tokens of d.
BreaksUpTo(d, k) == Cardinality({j \in 1..k : d[j].nl})

InTags(name) == name \in {tags[k] : k \in 1..Len(tags)}

Returned == pc = "returned"

Entries == 1..Len(sections)

\* The k-th entry of the returned list, the opening tag its record was
\* created at, and the span of the buffer its text was taken from.
Entry(k) == heap[sections[k]]
OpenedAt(k) == origin[sections[k]]
TextFrom(k) == CharsUpTo(doc, OpenedAt(k))
TextTo(k) == TextFrom(k) + Len(Entry(k).text)

\* The text of entry k is the buffer from just after its opening tag on.
TextStartsAfterOpeningTag(k) ==
  /\ OpenedAt(k) # 0
  /\ Entry(k).attrs = Attrs(doc[OpenedAt(k)])
  /\ TextTo(k) <= Len(buf)
  /\ Entry(k).text = SubSeq(buf, TextFrom(k) + 1, TextTo(k))

-----------------------------------------------------------------------------
(* Offsets *)

ScenarioA ==
  <<"<", "s", "c", "r", "i", "p", "t", ">", "\n">> \o TextChars
    \o <<"\n", "<", "/", "s", "c", "r", "i", "p", "t", ">">>

ScenarioAText == <<"\n">> \o TextChars \o <<"\n">>

ScenarioAReturned == Returned /\ buf = ScenarioA /\ InTags("script")

\* C2, as claimed: extract on Scenario A yields exactly one section, with tag
\* script, the text between the tags and offset 1.
ScenarioAOffsetOne ==
  ScenarioAReturned =>
    /\ Len(sections) = 1
    /\ Entry(1).tag = "script"
    /\ Entry(1).text = ScenarioAText
    /\ Entry(1).offset = 1

\* C2, amended: extract on Scenario A yields exactly one section, with tag
\* script, the text between the tags and offset 0: the text starts with the
\* first line break of the buffer, and no line break precedes it.
ScenarioAOffsetZero ==
  ScenarioAReturned =>
    /\ Len(sections) = 1
    /\ Entry(1).tag = "script"
    /\ Entry(1).text = ScenarioAText
    /\ Entry(1).offset = 0

ScenarioAWitness == ScenarioAReturned /\ Len(sections) = 1

\* C3, as claimed: a returned section has offset 0 exactly when it has a src
\* attribute.
OffsetZeroIffSrc ==
  Returned =>
    \A k \in Entries : Has(Entry(k).attrs, "src") <=> Entry(k).offset = 0

\* C3, amended: a returned section with a src attribute has offset 0; one
\* without has offset 0 exactly when no line break precedes its inner text.
OffsetZeroIffSrcOrFirstLine ==
  Returned =>
    \A k \in Entries :
      IF Has(Entry(k).attrs, "src")
      THEN Entry(k).offset = 0
      ELSE Entry(k).offset = 0 <=> BreaksUpTo(doc, OpenedAt(k)) = 0

\* An inline section on the first line, and a src section below a line break.
OffsetZeroWitness ==
  /\ Returned
  /\ \E k \in Entries : ~Has(Entry(k).attrs, "src") /\ Entry(k).offset = 0
  /\ \E k \in Entries :
       Has(Entry(k).attrs, "src") /\ BreaksUpTo(doc, OpenedAt(k)) >= 1

\* C4: every returned section without a src attribute has as offset the
\* 1-based number of the line on which its opening tag begins, minus one:
\* the number of line breaks before the '<' of the opening tag.
OffsetIsOpeningTagLine ==
  Returned =>
    \A k \in Entries :
      ~Has(Entry(k).attrs, "src") =>
        Entry(k).offset = BreaksUpTo(doc, OpenedAt(k) - 1)

-----------------------------------------------------------------------------
(* Nesting, reopening and interleaving *)

\* The tag events delivered for the requested names, in order.
TrackedEvents ==
  LET Requested(e) == InTags(e.name) IN SelectSeq(events, Requested)

OpensIn(ev, n) == Cardinality({j \in 1..n : ev[j].kind = "open"})

\* The requested tags of the document are one element of the name tag with
\* further elements of that name nested inside it, and nothing else: all tag
\* events for requested names carry this name, the first opens the outermost
\* element and only the last closes it.
SingleNest(tag) ==
  LET ev == TrackedEvents
  IN /\ Len(ev) >= 2
     /\ \A j \in 1..Len(ev) : ev[j].name = tag
     /\ \A n \in 1..(Len(ev) - 1) : 2 * OpensIn(ev, n) > n

\* C5: when a requested tag is opened, opened N more times inside itself and
\* closed N + 1 times, extract returns exactly one section for it, pushed at
\* the outermost closing tag and at no inner one, whose text is the buffer
\* from just after the outermost opening tag to just before the outermost
\* closing tag.
NestingDepthBalanced ==
  \A tag \in Names :
    (Returned /\ SingleNest(tag)) =>
      LET ev == TrackedEvents
          outerOpen == ev[1].at
          outerClose == ev[Len(ev)].at
      IN /\ Len(sections) = 1
         /\ emitted = <<[open |-> outerOpen, close |-> outerClose]>>
         /\ Entry(1).tag = tag
         /\ Entry(1).attrs = Attrs(doc[outerOpen])
         /\ Entry(1).text =
              SubSeq(buf, CharsUpTo(doc, outerOpen) + 1, TokStart(doc, outerClose))

\* A requested tag nested once or more inside itself.
NestingDepthBalancedWitness ==
  /\ Returned
  /\ \E tag \in Names : SingleNest(tag) /\ Len(TrackedEvents) >= 4
  /\ Len(sections) = 1

\* The element whose closing tag made the k-th push, and what a section of
\* that element is: the attributes of its opening tag, the text between its
\* tags, the offset of its content.
ElementOpen(k) == emitted[k].open
ElementClose(k) == emitted[k].close

OwnAttrs(k) == Entry(k).attrs = Attrs(doc[ElementOpen(k)])

OwnTextStart(k) ==
  LET from == CharsUpTo(doc, ElementOpen(k))
  IN /\ from + Len(Entry(k).text) <= Len(buf)
     /\ Entry(k).text = SubSeq(buf, from + 1, from + Len(Entry(k).text))

OwnText(k) ==
  Entry(k).text =
    SubSeq(buf, CharsUpTo(doc, ElementOpen(k)) + 1, TokStart(doc, ElementClose(k)))

OwnOffset(k) ==
  Entry(k).offset =
    IF doc[ElementOpen(k)].src THEN 0 ELSE BreaksUpTo(doc, ElementOpen(k))

SameName(k, l) == doc[ElementOpen(k)].name = doc[ElementOpen(l)].name

\* C6: when a requested tag is closed and opened again, each of its elements
\* gets a section of its own: a separate record with the attributes of its
\* own opening tag, the text between its own tags and the offset of its own
\* content.
ReopenedTagOwnSections ==
  Returned =>
    \A k, l \in Entries :
      (k < l /\ SameName(k, l)) =>
        /\ sections[k] # sections[l]
        /\ OwnAttrs(k) /\ OwnText(k) /\ OwnOffset(k)
        /\ OwnAttrs(l) /\ OwnText(l) /\ OwnOffset(l)

\* C7: in a document where no requested tag is reopened, every returned
\* section carries the attributes of its own outermost opening tag and a text
\* that starts just after that tag, and no two entries are the same record.
SectionsOwnRecords ==
  (Returned /\ \A k, l \in Entries : k < l => ~SameName(k, l)) =>
    /\ \A k \in Entries : OwnAttrs(k) /\ OwnTextStart(k)
    /\ \A k, l \in Entries : k < l => sections[k] # sections[l]

\* C8: the returned list is in the order of the closing tags that end the
\* sections' texts: the text of every entry ends at a closing tag of the
\* entry's name, and an entry never ends after a later entry; the order of
\* the names in tags does not matter.
SectionsInClosingTagOrder ==
  Returned =>
    /\ \A k \in Entries :
         /\ OpenedAt(k) # 0
         /\ \E j \in 1..Len(doc) :
              /\ doc[j].kind = "close"
              /\ doc[j].name = Entry(k).tag
              /\ TokStart(doc, j) = TextTo(k)
    /\ \A k, l \in Entries :
         k < l => /\ TextTo(k) <= TextTo(l)
                  /\ sections[k] # sections[l] => TextTo(k) < TextTo(l)

\* A template closed before a script, with script named first in tags.
SectionsInClosingTagOrderWitness ==
  /\ Returned
  /\ tags = <<"script", "template">>
  /\ Len(sections) = 2
  /\ sections[1] # sections[2]
  /\ Entry(1).tag = "template"
  /\ Entry(2).tag = "script"

\* Token j is a tag whose name was not requested.
UntrackedTag(j) == doc[j].kind # "text" /\ ~InTags(doc[j].name)

\* Token j lies in the span of the buffer the text of entry k was taken from.
InTextOf(j, k) == TextFrom(k) <= TokStart(doc, j) /\ TokStart(doc, j) < TextTo(k)

\* A tag of a name that was not requested, delivered by the parser, lies in
\* the text of entry k.
UntrackedTagInTextOf(k) ==
  \E n \in 1..Len(events) : ~InTags(events[n].name) /\ InTextOf(events[n].at, k)

\* C9, as claimed: no returned section bears a name that was not requested,
\* and no tag of such a name, nor what it holds, is part of the text of a
\* returned section.
UntrackedTagsNotInText ==
  Returned =>
    \A k \in Entries : InTags(Entry(k).tag) /\ ~UntrackedTagInTextOf(k)

\* The handlers run on a tag whose name was not requested.
AtUntrackedTag == pc = "parsing" /\ i <= Len(doc) /\ UntrackedTag(i)

\* C9, amended: a tag whose name was not requested never starts or ends a
\* section and changes no nesting counter; but the text of a section is the
\* buffer between its start and the closing tag that ends it as it stands,
\* with every tag of another name that lies there.
UntrackedTagsChangeNothing ==
  /\ [][AtUntrackedTag => UNCHANGED <<localVars, origin, emitted>>]_vars
  /\ [](Returned =>
          \A k \in Entries : InTags(Entry(k).tag) /\ TextStartsAfterOpeningTag(k))

\* A tag of a name that was not requested, inside the text of a section.
UntrackedTagsWitness ==
  /\ Returned
  /\ \E k \in Entries : UntrackedTagInTextOf(k)

-----------------------------------------------------------------------------
(* Repeated calls *)

\* C10: a call of extract on the buffer and the tags of the caller's first
\* call returns a list equal to the first call's, whatever calls came in
\* between; and every call starts with no flag, no counter, no open section,
\* start offset 0 and an empty list.
RepeatedExtractSameResult ==
  /\ (Returned /\ first[1].buf = buf /\ first[1].tags = tags) =>
       Result = first[1].result
  /\ (pc = "parsing" /\ i = 1) =>
       /\ isRootTagFinded = EmptyObject
       /\ tagsCounter = EmptyObject
       /\ heap[section] = EmptyObject
       /\ sectStart = 0
       /\ sections = <<>>

\* The first buffer again, after a call on another buffer, with a section.
RepeatedExtractWitness ==
  /\ Returned
  /\ callMix = "other"
  /\ first[1].buf = buf
  /\ Len(sections) >= 1

-----------------------------------------------------------------------------
(* The arguments of extract and load *)

\* Nothing of the call has run past its checks: the parser has delivered
\* nothing, no object was created, no call was made, and the variables of
\* load and the cache are as they were.
NothingDone ==
  /\ Blank
  /\ outcome.calls = <<>>
  /\ vue = EmptyObject
  /\ loaded = 0
  /\ sourceMapsCache = EmptyObject

IllTyped ==
  \/ fn \in {"extract", "load"} /\ kinds.buf # "string"
  \/ fn = "extract" /\ kinds.tags # "array"

\* C11: extract and load called with a first argument that is no string, and
\* extract called with a second argument that is no array, throw a TypeError,
\* and nothing is parsed, read, transpiled or cached before they do.
IllTypedArgumentsRejectedFirst ==
  IllTyped =>
    \/ pc \in {"entry", "called"} /\ outcome = Pending /\ NothingDone
    \/ /\ pc = "thrown"
       /\ outcome.kind = "throw"
       /\ outcome.error.name = "TypeError"
       /\ NothingDone

\* extract throws on a document with a script element, for tags that are
\* undefined.
IllTypedArgumentsWitness ==
  /\ fn = "extract"
  /\ kinds = [buf |-> "string", tags |-> "undefined"]
  /\ \E j \in 1..Len(doc) : doc[j].kind = "open" /\ doc[j].name = "script"
  /\ pc = "thrown"
  /\ outcome.error = Error("TypeError", <<"Second argument must be an array.">>)

\* The list is empty, or a number is in it.
EmptyOrNotStrings ==
  tags = <<>> \/ \E k \in 1..Len(tags) : tags[k] = NotAString

\* C12, as stated: extract called with an empty tag list, or with a list that
\* has a non-string in it, does not return a result.
TagListMustBeStrings ==
  (fn = "extract" /\ kinds = WellTyped /\ EmptyOrNotStrings) => pc # "returned"

\* C12, amended: extract requires its second argument to be an array, and
\* throws a TypeError before it parses when it is not.  Every array is
\* accepted: the empty one gives the empty result, and an element that is no
\* string names no section.
TagListMustBeArray ==
  fn = "extract" =>
    /\ (kinds.buf = "string" /\ kinds.tags # "array" /\ pc # "entry") =>
         /\ pc = "thrown"
         /\ outcome.error = Error("TypeError", <<"Second argument must be an array.">>)
         /\ Blank
    /\ kinds = WellTyped => pc # "thrown"
    /\ pc = "returned" =>
         /\ tags = <<>> => Result = <<>>
         /\ \A k \in 1..Len(Result) :
              Result[k].tag # NotAString /\ InTags(Result[k].tag)

\* extract returns the empty list for the empty tag list, on a document with a
\* script element.
TagListMustBeArrayWitness ==
  /\ fn = "extract"
  /\ kinds = WellTyped
  /\ tags = <<>>
  /\ \E j \in 1..Len(doc) : doc[j].kind = "open" /\ doc[j].name = "script"
  /\ pc = "returned"
  /\ Result = <<>>

-----------------------------------------------------------------------------
(* transpile and generateMap, measured on the call and its outcome *)

TranspileEnded == fn = "transpile" /\ pc # "called"
GenerateMapEnded == fn = "generateMap" /\ pc # "called"

\* The plugin transpile looks for.
Wanted == PluginName(call.lang)
PluginMissing == Wanted \notin DOMAIN installed
PluginReturned == Wanted \in DOMAIN installed /\ ~installed[Wanted].throws
PluginFailed == Wanted \in DOMAIN installed /\ installed[Wanted].throws

\* The calls the outcome records to callee.
CallsTo(callee) == {k \in 1..Len(outcome.calls) : outcome.calls[k].callee = callee}

Includes(message, part) == \E k \in 1..Len(message) : message[k] = part

\* options.file is a file name, as the comment of transpile has it.
FileNamed == call.options.file # <<>>

MapsWanted ==
  /\ call.options.maps
  /\ call.options.offset.type = "number"
  /\ ~call.options.offset.nan
  /\ call.options.offset.int + (IF call.options.offset.half THEN 1 ELSE 0) > 0

\* C13: transpile requires 'vuegister-plugin-' + lang before anything else,
\* for every lang; when that plugin is found and returns, transpile returns
\* the plugin's value as it is, having called nothing but the plugin, and the
\* plugin was called with the text and the options of the call.
PluginFirstAndTrusted ==
  TranspileEnded =>
    /\ Len(outcome.calls) >= 1
    /\ outcome.calls[1].callee = "require"
    /\ outcome.calls[1].args = <<Wanted>>
    /\ PluginReturned =>
         /\ outcome.kind = "return"
         /\ outcome.value = installed[Wanted].returns
         /\ Len(outcome.calls) = 2
         /\ outcome.calls[2].callee = "plugin"
         /\ outcome.calls[2].args = <<call.text, call.options>>

\* An installed vuegister-plugin-js answers for a script that would have got
\* a map from the core.
PluginFirstAndTrustedWitness ==
  /\ TranspileEnded
  /\ call.lang = "js"
  /\ MapsWanted
  /\ PluginReturned
  /\ installed[Wanted].returns = Transpiled(<<"{">>, PluginMap)
  /\ outcome.value = Transpiled(<<"{">>, PluginMap)

MissingPluginAlwaysRaises ==
  (TranspileEnded /\ PluginMissing /\ call.lang \notin {"js", "html"}) =>
    /\ outcome.kind = "throw"
    /\ Includes(outcome.error.message, Wanted)

\* The command that installs a plugin, and the line that announces it.
InstallHints(plugin) ==
  {"To install it run:", "npm install --save-dev " \o plugin}

\* C16: the error for a missing plugin names the plugin and the command that
\* installs it.  Stated for the langs that reach langs.error with the error of
\* require, those that are no property of langs.
MissingPluginErrorNamesInstall ==
  (TranspileEnded /\ PluginMissing /\ call.lang \notin OwnLangs \cup InheritedLangs) =>
    /\ outcome.kind = "throw"
    /\ Includes(outcome.error.message, Wanted)
    /\ \E hint \in InstallHints(Wanted) : Includes(outcome.error.message, hint)

\* C17: an error thrown by the plugin while it runs is what transpile throws.
\* Stated for 'js', 'html' and the langs that are no property of langs.
PluginFailurePropagates ==
  (TranspileEnded /\ PluginFailed /\ call.lang \notin {"error"} \cup InheritedLangs) =>
    /\ outcome.kind = "throw"
    /\ outcome.error = installed[Wanted].error

\* The offset is a number and is zero or less.
NotPositive(offset) ==
  /\ offset.type = "number"
  /\ ~offset.nan
  /\ offset.int + (IF offset.half THEN 1 ELSE 0) <= 0

\* C18: generateMap with offset <= 0 throws a RangeError, whatever the content,
\* having called neither the tokenizer nor addMapping; and no call of
\* generateMap made by transpile or in the course of load has an offset <= 0.
NonPositiveOffsetRangeError ==
  /\ (GenerateMapEnded /\ NotPositive(call.offset)) =>
       /\ outcome.kind = "throw"
       /\ outcome.error.name = "RangeError"
       /\ outcome.calls = <<>>
  /\ fn \in {"transpile", "load"} =>
       \A k \in CallsTo("generateMap") : ~NotPositive(outcome.calls[k].args[3])

\* generateMap is called with offset 0 on a content of two tokens.
NonPositiveOffsetWitness ==
  /\ GenerateMapEnded
  /\ call = [content |-> <<"a", "\n", "{">>, file |-> <<"app", "basic.vue">>, offset |-> Num(0)]
  /\ outcome.kind = "throw"

\* C19: generateMap with no offset, or with an offset that is not an integer,
\* throws, whatever the content.
OnlyPositiveIntegerOffsets ==
  (GenerateMapEnded /\ (call.offset.type = "undefined" \/ call.offset.half)) =>
    outcome.kind = "throw"

\* The tokens of the content, read off its characters: a token starts at a
\* punctuator, and at a letter that follows no letter.
TokenStarts(content) ==
  {k \in 1..Len(content) :
     \/ content[k] = "{"
     \/ content[k] = "a" /\ (k = 1 \/ content[k - 1] # "a")}
BreaksBefore(content, k) == {j \in 1..(k - 1) : content[j] = "\n"}
LineOf(content, k) == 1 + Cardinality(BreaksBefore(content, k))
ColumnOf(content, k) ==
  k - 1 - (IF BreaksBefore(content, k) = {} THEN 0
           ELSE CHOOSE j \in BreaksBefore(content, k) :
                  \A l \in BreaksBefore(content, k) : l <= j)
\* The k-th token start.
StartOf(content, k) ==
  CHOOSE s \in TokenStarts(content) :
    Cardinality({t \in TokenStarts(content) : t <= s}) = k
ValueOf(content, s) ==
  IF content[s] = "{" THEN Undefined
  ELSE Str(Slice(content, s, CHOOSE e \in (s + 1)..(Len(content) + 1) :
                               /\ \A j \in s..(e - 1) : content[j] = "a"
                               /\ e = Len(content) + 1 \/ content[e] # "a"))

\* C20: for offset > 0 the map returned by generateMap has one mapping for
\* each token of the content, in the order of the tokens; the k-th has the
\* line and column of the k-th token as generated, the same column and the
\* line plus offset as original, file as source and the value of the token as
\* name.
OneMappingPerToken ==
  (GenerateMapEnded /\ outcome.kind = "return" /\ ~NotPositive(call.offset)
     /\ call.offset.type = "number") =>
    LET mappings == outcome.value.mappings
        content == call.content
    IN /\ Len(mappings) = Cardinality(TokenStarts(content))
       /\ \A k \in 1..Len(mappings) :
            LET s == StartOf(content, k)
                line == LineOf(content, s)
            IN /\ mappings[k].generated = [line |-> line, column |-> ColumnOf(content, s)]
               /\ mappings[k].original.column = ColumnOf(content, s)
               /\ mappings[k].original.line = [call.offset EXCEPT !.int = @ + line]
               /\ mappings[k].source = call.file
               /\ mappings[k].name = ValueOf(content, s)
       /\ \A k \in 1..(Len(mappings) - 1) :
            \/ mappings[k].generated.line < mappings[k + 1].generated.line
            \/ /\ mappings[k].generated.line = mappings[k + 1].generated.line
               /\ mappings[k].generated.column < mappings[k + 1].generated.column

\* Offset 5: the identifier of line 1 maps to line 6, the punctuator of line 2
\* to line 7.
OneMappingPerTokenWitness ==
  /\ GenerateMapEnded
  /\ call = [content |-> <<"a", "a", "\n", "{">>, file |-> <<"app", "basic.vue">>, offset |-> Num(5)]
  /\ outcome.kind = "return"
  /\ Len(outcome.value.mappings) = 2
  /\ outcome.value.mappings[1].name = Str("aa")
  /\ outcome.value.mappings[2].original.line = Num(7)


-----------------------------------------------------------------------------
(* getLine *)

GetLineEnded == fn = "getLine" /\ pc \in {"returned", "thrown"}

\* The index of the call is an integer.
WholeIndex ==
  /\ call.index.type = "number"
  /\ ~call.index.nan
  /\ ~call.index.half

\* The positions p, from 0, of the line breaks of the buffer.
BreakPositions == {p \in 0 .. Len(buf) - 1 : buf[p + 1] = "\n"}

\* The indexes kept are the positions of the line breaks, in increasing order.
IndexesAreBreaks ==
  /\ {loc[k] : k \in 1 .. Len(loc)} = BreakPositions
  /\ \A k \in 1 .. Len(loc) - 1 : loc[k] < loc[k + 1]

\* C21, as stated: the line returned for an integer index is the number of
\* line breaks at or before the index.
LineCountsBreaksAtOrBefore ==
  (GetLineEnded /\ WholeIndex) =>
     /\ IndexesAreBreaks
     /\ outcome.kind = "return"
     /\ outcome.value = Num(Cardinality({p \in BreakPositions : p <= call.index.int}))

\* C21: the indexes built from a buffer are the positions of its line breaks,
\* strictly increasing, and the line returned for an integer index is the
\* number of line breaks strictly before the index: an index that is the
\* position of a line break is on the line the break ends.
LineCountsBreaksBefore ==
  (GetLineEnded /\ WholeIndex) =>
     /\ IndexesAreBreaks
     /\ outcome.kind = "return"
     /\ outcome.value = Num(Cardinality({p \in BreakPositions : p < call.index.int}))

\* An index on the second of three line breaks is on line 1.
LineCountsBreaksBeforeWitness ==
  /\ fn = "getLine"
  /\ pc = "returned"
  /\ buf = <<"\n", "a", "\n", "\n">>
  /\ call.index = Num(2)
  /\ outcome.value = Num(1)

\* C22, as stated: an index that is no integer, or is negative, is rejected
\* with an error and no line number is returned.
NonIntegerOrNegativeRejected ==
  (GetLineEnded /\ (~WholeIndex \/ call.index.int < 0)) =>
     /\ outcome.kind = "throw"
     /\ outcome.value = Undefined

\* C22: an index that is no integer is rejected with a TypeError and no line
\* number is returned; every integer, a negative one too, is given a line,
\* and a negative one is given line 0.
NonIntegerRejected ==
  GetLineEnded =>
     IF ~WholeIndex
     THEN /\ outcome.kind = "throw"
          /\ outcome.error.name = "TypeError"
          /\ outcome.value = Undefined
     ELSE /\ outcome.kind = "return"
          /\ call.index.int < 0 => outcome.value = Num(0)

\* A fraction is rejected on a buffer that has line breaks.
NonIntegerRejectedWitness ==
  /\ fn = "getLine"
  /\ pc = "thrown"
  /\ call.index = NumAndHalf(1)
  /\ Len(loc) = 2
  /\ outcome.error.name = "TypeError"

-----------------------------------------------------------------------------
(* load *)

LoadReturned == fn = "load" /\ pc = "loaded"
LoadThrown == fn = "load" /\ pc = "thrown"

\* The directory of the file the caller passed, or the working directory.
CallerDir == IF call.file # <<>> THEN <<call.file[1]>> ELSE Cwd

\* The path of SrcValue in the directory of the file the caller passed.
SrcInCallerDir == CallerDir \o <<"sub", "a.js">>

\* The file the text of the k-th section gone through came from.
OriginOf(k) ==
  IF Has(heap[sections[k]].attrs, "src") THEN SrcInCallerDir ELSE call.file

\* The last script section gone through, 0 when there is none.
LastScript ==
  LET scripts == {k \in 1 .. Len(done) : done[k].tag = "script"}
  IN IF scripts = {} THEN 0 ELSE CHOOSE k \in scripts : \A l \in scripts : l <= k

\* C26, as stated: when load, asked for maps, returns and a map was made for
\* the script, the cache holds that map under the path of the file the script
\* text came from.
ScriptMapCachedUnderItsFile ==
  (LoadReturned /\ cfg.maps /\ call.file # <<>> /\ LastScript > 0) =>
     (done[LastScript].map.type = "object" =>
        /\ Has(sourceMapsCache, OriginOf(LastScript))
        /\ sourceMapsCache[OriginOf(LastScript)] = done[LastScript].map)

\* C27, as stated: every file load reads for a src attribute is the src in the
\* directory of the file the caller passed (or in the working directory), and
\* the file named to transpile for a section is the one its text came from,
\* whatever sections came before it.
SrcResolvedAgainstCallerFile ==
  fn = "load" =>
     /\ \A c \in 1 .. Len(outcome.calls) :
           outcome.calls[c].callee = "readFileSync" =>
              outcome.calls[c].args = <<SrcInCallerDir>>
     /\ \A k \in 1 .. Len(done) : done[k].file = OriginOf(k)

\* The caller of load asked for maps.
MapsAsked == Has(call.cfg, "maps") /\ call.cfg.maps

\* The sections gone through that line 158 caches a map for.
CachedSections ==
  {k \in 1 .. Len(done) : MapsAsked /\ done[k].map.type = "object"}

\* The cache holds the maps of the sections gone through, each under the
\* file transpile was given, the later one where two have the same file;
\* it holds nothing when no maps were asked for or none was made.
CacheHoldsMapsMade ==
  /\ DOMAIN sourceMapsCache = {done[k].file : k \in CachedSections}
  /\ \A k \in CachedSections :
        (\A l \in CachedSections : l > k => done[l].file # done[k].file) =>
           sourceMapsCache[done[k].file] = done[k].map

\* extract, transpile, generateMap and getLine change neither the cache nor
\* the handlers, and load changes no handler.
OnlyLoadCaches ==
  /\ extensions = EmptyObject
  /\ prepareStackTrace = FALSE
  /\ fn # "load" => sourceMapsCache = EmptyObject

\* C30, as stated: the cache and the handlers are as they were after every
\* call of extract, transpile and generateMap; load changes the cache only by
\* the maps it was asked for and that were made; and a load that throws leaves
\* the cache as it was.
FailedLoadLeavesCache ==
  /\ OnlyLoadCaches
  /\ fn = "load" => CacheHoldsMapsMade
  /\ LoadThrown => sourceMapsCache = EmptyObject

\* C30: the cache and the handlers are as they were after every call of
\* extract, transpile and generateMap, ended by a return or by a throw; load
\* changes the cache only by the maps it was asked for and that were made, so
\* not at all when cfg.maps is false or no section has a map; a load that
\* throws leaves in the cache the maps of the sections it went through before
\* the one that failed.
LoadCachesMapsMade ==
  /\ OnlyLoadCaches
  /\ fn = "load" => CacheHoldsMapsMade

\* A load that cached the map of the script and then failed to read the src
\* of the template.
LoadCachesMapsMadeWitness ==
  /\ LoadThrown
  /\ Len(done) = 1
  /\ done[1].tag = "script"
  /\ DOMAIN sourceMapsCache = {call.file}
  /\ outcome.error.message = <<"ENOENT: no such file or directory">>
-----------------------------------------------------------------------------
(* register and unregister *)

RegisterEnded == fn = "register" /\ pc = "idle"
RequireEnded == fn = "require" /\ pc \in {"idle", "thrown"}
UnregisterReturned == fn = "unregister" /\ pc = "idle" /\ outcome.kind = "return"

\* The handler, the installation of source-map-support, the maps and the
\* modules are as they were when the call began.
AsItWas ==
  /\ extensions = was.extensions
  /\ prepareStackTrace = was.prepareStackTrace
  /\ sourceMapsCache = was.sourceMapsCache
  /\ requireCache = was.requireCache

\* C23: register returns true and installs the handler, with the options of
\* this call, only when there was no .vue handler; when there was one it
\* returns false, whatever its options, and the handler, its options, the
\* installation of source-map-support and the cache of maps are as they were.
AtMostOneHook ==
  RegisterEnded =>
     IF VUE_EXT \in DOMAIN was.extensions
     THEN /\ outcome.value = Bool(FALSE)
          /\ AsItWas
     ELSE /\ outcome.value = Bool(TRUE)
          /\ DOMAIN extensions = {VUE_EXT}
          /\ extensions[VUE_EXT].given = call.options
          /\ sourceMapsCache = was.sourceMapsCache

\* register is called with other options while a handler that has cached a
\* map is there.
AtMostOneHookWitness ==
  /\ RegisterEnded
  /\ VUE_EXT \in DOMAIN was.extensions
  /\ DOMAIN was.extensions[VUE_EXT].given # DOMAIN call.options
  /\ DOMAIN sourceMapsCache # {}
  /\ outcome.value = Bool(FALSE)

AfterUnregister == was.fn = "unregister" /\ was.kind = "return"

\* C24: when unregister returns there is no .vue handler and the cache of
\* maps is empty, whatever calls of register, require, load and unregister
\* came before, unregister itself too; the next call, if it is register,
\* returns true, and if it is the require of a .vue file, throws.
UnregisterReverses ==
  /\ UnregisterReturned =>
        /\ VUE_EXT \notin DOMAIN extensions
        /\ ~prepareStackTrace
        /\ DOMAIN sourceMapsCache = {}
  /\ (RegisterEnded /\ AfterUnregister) => outcome.value = Bool(TRUE)
  /\ (RequireEnded /\ AfterUnregister) => outcome.kind = "throw"

\* unregister returns after a handler was registered, maps were cached and
\* .vue modules were loaded.
UnregisterReversesWitness ==
  /\ UnregisterReturned
  /\ VUE_EXT \in DOMAIN was.extensions
  /\ DOMAIN was.sourceMapsCache # {}
  /\ Len(outcome.value) > 2

\* The modules in the cache when unregister was called, and their children.
WasCached == {was.requireCache[k].id : k \in 1 .. Len(was.requireCache)}
WasChildrenOf(id) ==
  LET module == CHOOSE m \in {was.requireCache[k] : k \in 1 .. Len(was.requireCache)} :
                  m.id = id
  IN {module.children[k] : k \in 1 .. Len(module.children)}

\* The modules reached from those of ids through children that are cached.
RECURSIVE ReachedFrom(_)
ReachedFrom(ids) ==
  LET more == ids \cup (UNION {WasChildrenOf(id) : id \in ids} \cap WasCached)
  IN IF more = ids THEN ids ELSE ReachedFrom(more)

VueModules == {id \in WasCached : id[Len(id)] \in {"basic.vue", "other.vue"}}
Removed == {id \in WasCached : ~InCache(requireCache, id)}
Listed == {outcome.value[k] : k \in 1 .. Len(outcome.value)}

\* C25: when unregister returns, every module that was cached under a .vue
\* path is gone from the cache, with every cached module reached from it
\* through children; the list returned holds the ids removed, each once, and
\* no id of the list is in the cache.
UnloadsVueModules ==
  UnregisterReturned =>
     /\ ReachedFrom(VueModules) \subseteq Removed
     /\ Listed = Removed
     /\ Len(outcome.value) = Cardinality(Removed)
     /\ \A id \in Listed : ~InCache(requireCache, id)
     /\ Removed = ReachedFrom(VueModules \cup ({SourceMapSupport} \cap WasCached))

\* Two .vue modules that share a child: the child is listed once.
UnloadsVueModulesWitness ==
  /\ UnregisterReturned
  /\ was.requireCache = <<Module(BasicVue, <<XJs>>), Module(OtherVue, <<XJs>>),
                          Module(XJs, <<>>)>>
  /\ outcome.value = <<XJs, BasicVue, OtherVue>>
  /\ requireCache = <<>>

\* The modules that list id among their children.
ParentsOf(id) == {parent \in WasCached : id \in WasChildrenOf(parent)}

\* C29, as stated: unregister does not run out of stack, and unload is called
\* for a module at most once by forEach and once by each module that lists it
\* among its children.
UnloadVisitsBounded ==
  fn = "unregister" =>
     /\ outcome.kind # "throw"
     /\ \A id \in DOMAIN visits : visits[id] <= 1 + Cardinality(ParentsOf(id))

\* The language of a section without a lang attribute: the default the
\* caller gave for the tag, or the built-in one.
ExpectedLang(options, tag) ==
  IF "lang" \in DOMAIN options /\ tag \in DOMAIN options.lang
  THEN options.lang[tag]
  ELSE IF tag = "script" THEN "js" ELSE "html"

TranspileCalls == SelectSeq(outcome.calls, LAMBDA c : c.callee = "transpile")

\* C28, as stated: load called by the caller and load called by the hook
\* transpile every section, none of which has a lang attribute, in the
\* default the caller gave for its tag, or in the built-in default.
SameLangOnBothPaths ==
  fn \in Loaders =>
     \A k \in 1 .. Len(TranspileCalls) :
        TranspileCalls[k].args[1] = ExpectedLang(call.cfg, heap[sections[k]].tag)
====
